---------------------------- MODULE Spec2Model ----------------------------
(***************************************************************************)
(* A model of bin/user/rtgd.py: the RealtimeGaugeData service (the weeWX   *)
(* engine's callbacks, which feed the control queue), the                  *)
(* RealtimeGaugeDataThread worker (run, process_packet, process_stats,     *)
(* calculate, new_archive_record, end_archive_period), RtgdBuffer,         *)
(* CachedPacket, calc_trend, calc_windrose and ThreadedSource.             *)
(*                                                                         *)
(* Values: every observation is a natural number; Python's None is the     *)
(* number None below, which sorts below every observation exactly as None  *)
(* sorts below every number in Python 2 comparisons.  Wind speeds are in   *)
(* hundredths of the unit.  Every packet and record is in the same unit    *)
(* system, for which weeWX's convert and to_std_system return their        *)
(* argument.                                                               *)
(***************************************************************************)
EXTENDS Integers, Sequences, FiniteSets, TLC

\* ---------------------------------------------------------------- bounds
\* steps of the environment (engine callbacks, clock ticks, forecast
\* packages) in the queue scenario (InitQueue)
QueueEvents == 3
\* steps of the environment in the data scenario (InitData)
DataEvents == 4
\* steps of the environment in the store scenario (InitStore)
StoreEvents == 3
\* steps of the environment in the day scenario (InitDay)
DayEvents == 3

\* ------------------------------------------------------ program constants
None == -1
MaxBacklog == 5
wind_period == 600
max_cache_age == 600
wr_period == 86400
wr_points == 16
\* the look-back of the temperature trend and the grace of its lookup
TrendPeriod == 3600
TrendGrace == 300

\* the shortest advance of the clock, the advances explored, and the clock
\* reading when the thread starts
TickSeconds == wind_period \div 2
TickSizes == {TickSeconds, 2 * TickSeconds}
StartTime == TrendPeriod + 2 * TickSeconds

\* the min_interval settings explored: unset, or one tick
MinIntervals == {None, TickSeconds}

\* the fields of CachedPacket.OBS that the model carries
OBS == {"outTemp", "outHumidity", "windSpeed", "windDir", "rain"}

\* the unit system of every packet and record (weewx.US is 1)
US == 1

\* loop packets (without dateTime and usUnits) the station can emit: a full
\* one, which also carries a field that is not in OBS, and a partial one in
\* which rain is present and None and the wind fields are absent
RichSamples ==
    { [outTemp |-> 2, outHumidity |-> 52, windSpeed |-> 300, windDir |-> 90,
       rain |-> 1, extraTemp1 |-> 7],
      [outTemp |-> 1, rain |-> None] }
PlainSamples ==
    { [outTemp |-> 2, outHumidity |-> 52, windSpeed |-> 300, windDir |-> 90,
       rain |-> 1, extraTemp1 |-> 7] }

\* loop packets of the day scenario: a full one, and one from the wind sensor
\* alone, without outTemp, whose direction is None
DaySamples ==
    { [outTemp |-> 2, outHumidity |-> 52, windSpeed |-> 300, windDir |-> 90,
       rain |-> 1],
      [windSpeed |-> 400, windDir |-> None] }

\* a value that is not a number (a text from a faulty driver): arithmetic on
\* it raises TypeError
NotANumber == -2
\* loop packets of the store scenario: the full one, and one whose rain is
\* not a number
StoreSamples ==
    PlainSamples \cup { [rain |-> NotANumber] }

\* windSpeed/windDir of the archive records the engine can write; in the
\* store scenario also wind from just west and just east of north, a record
\* whose direction is None and a record whose speed is None
ArchiveWinds == { <<312, 90>> }
StoreWinds ==
    { <<312, 90>>, <<527, 350>>, <<104, 10>>, <<215, None>>, <<None, 180>> }

\* what the archive can hold when the thread starts in the store scenario:
\* nothing, or one record written TrendPeriod before the start (on the
\* previous day), with outTemp set, None or missing
OldRecord ==
    [dateTime |-> StartTime - TrendPeriod, usUnits |-> US,
     windSpeed |-> 312, windDir |-> 90]
StoreHistories ==
    { <<>>,
      <<OldRecord>>,
      <<[f \in DOMAIN OldRecord \cup {"outTemp"} |->
            IF f = "outTemp" THEN 1 ELSE OldRecord[f]]>>,
      <<[f \in DOMAIN OldRecord \cup {"outTemp"} |->
            IF f = "outTemp" THEN None ELSE OldRecord[f]]>> }

\* the observations whose day summary the model carries, next to 'wind'
SummaryObs == {"outTemp", "outHumidity"}
\* the store's day summary when the thread starts in the day scenario: an
\* empty day, or a day on which one packet was recorded a tick before the
\* start, its outTemp below, equal to or above what the station reports now,
\* its outHumidity 50 above its outTemp and its wind, from 180 degrees,
\* below, equal to or above what the station reports now
EarlierToday(v) ==
    [min |-> v, mintime |-> StartTime - TickSeconds,
     max |-> v, maxtime |-> StartTime - TickSeconds]
EarlierGust(v) ==
    [max |-> v, maxtime |-> StartTime - TickSeconds, max_dir |-> 180]
DayHistories ==
    { [obs \in SummaryObs \cup {"wind"} |->
          IF obs = "wind"
          THEN [max |-> None, maxtime |-> None, max_dir |-> None]
          ELSE [min |-> None, mintime |-> None,
                max |-> None, maxtime |-> None]] }
    \cup { [obs \in SummaryObs \cup {"wind"} |->
               IF obs = "wind" THEN EarlierGust(100 * (v + 1))
               ELSE EarlierToday(IF obs = "outTemp" THEN v ELSE 50 + v)] :
              v \in 1..3 }

\* results of get_minmax_obs('barometer')
StatsPayloads ==
    { [min_barometer |-> 990, max_barometer |-> 1030] }
\* results of get_rain over the month: nothing, or a total
MonthRains == { None, 12 }
\* scroller texts a source can supply, as sequences of pieces: a plain text,
\* and in the day scenario also a text with a strftime directive
PlainText == << "rain later" >>
DatedText == << "issued at ", "%H" >>
\* a package payload that is Python's None
NonePayload == [none |-> TRUE]

VARIABLES
    \* --- the engine, the clock and the archive store (collaborators)
    now,            \* time.time()
    engineUp,       \* the engine still delivers events (shutDown not yet called)
    scenario,       \* "data", "queue", "store" or "day": what the engine, the
                    \* station and the archive deliver
    budget,         \* steps the environment has left in this scenario
    nextId,         \* enqueue counter of the control queue
    archive_table,  \* the archive table: records the engine has written
    day_summary,    \* the store's day summary
    day_true,       \* extremes over every loop packet emitted today
    \* --- the scroller source (a ThreadedSource)
    source_ctl_queue,
    source_pc,      \* "run" or "stopped"
    \* --- the queues
    control_queue,
    result_queue,
    \* --- RealtimeGaugeDataThread
    pc,             \* "get", "trim", "stopped"
    min_interval,
    last_write,
    scroller_text,
    stats,          \* attributes set by process_stats
    packet_cache,   \* CachedPacket.cache
    buffer,         \* RtgdBuffer
    day_stats,
    lost_contact_flag,
    rose,
    data,           \* the last gauge-data written
    \* --- history
    last_handled,   \* id and type of the package handled last
    last_trimmed,   \* id of the package the backlog trim discarded last
    trim_dropped,   \* the current run of the trim loop has discarded a package
    resets,         \* calls of reset_loop_stats
    refreshes,      \* refreshes of day_stats since the thread started
    seen,           \* extremes of outTemp over the loop packets handled
    outcome,        \* what the last process_packet did about generation
    prev_write,     \* last_write before the last generation (None before the second)
    since_reset,    \* <<outTemp, dateTime>> of the loop packets handled since
                    \* the buffer was last reset, None values left out
    rain_true,      \* sum of their rain values that are not None
    gen,            \* locals of the last generation started: the cached packet
                    \* and what calc_trend did for outTemp
    rose_call       \* arguments of the last calc_windrose: now, and how many
                    \* records the archive held

sourceVars == <<source_ctl_queue, source_pc>>
envVars == <<now, engineUp, scenario, budget, nextId,
             archive_table, day_summary, day_true, sourceVars>>
queueVars == <<control_queue, result_queue>>
threadVars == <<pc, min_interval, last_write, scroller_text, stats,
                packet_cache, buffer, day_stats, lost_contact_flag, rose,
                data>>
historyVars == <<last_handled, last_trimmed, trim_dropped, resets, refreshes,
                 seen, outcome, prev_write, since_reset, rain_true, gen,
                 rose_call>>
vars == <<envVars, queueVars, threadVars, historyVars>>

\* ------------------------------------------------------------ Python 2
\* max() and weeutil.min_with_none over two values, None losing to a number
PyMax(a, b) == IF a >= b THEN a ELSE b
\* (a minimum that a None wins)
min_none_wins(a, b) == IF a <= b THEN a ELSE b
min_with_none(a, b) ==
    IF a = None THEN b
    ELSE IF b = None THEN a
    ELSE IF a <= b THEN a ELSE b
\* dict.get(field, default)
Get(d, field, default) == IF field \in DOMAIN d THEN d[field] ELSE default
\* time.localtime(None) is the current time
localtime(t, clock) == IF t = None THEN clock ELSE t

\* cos and sin of an angle that is a multiple of 90 degrees
CosDeg(a) ==
    LET r == a % 360 IN IF r = 0 THEN 1 ELSE IF r = 180 THEN -1 ELSE 0
SinDeg(a) ==
    LET r == a % 360 IN IF r = 90 THEN 1 ELSE IF r = 270 THEN -1 ELSE 0

\* --------------------------------------------------------- Queue.Queue
QueuePut(q, item) == Append(q, item)
\* (a get() that takes the newest item)
QueueGetNewest(q) == <<q[Len(q)], SubSeq(q, 1, Len(q) - 1)>>
\* get() on a non-empty queue: the item taken and the queue left
QueueGet(q) == <<Head(q), Tail(q)>>

Package(type, id, payload) == [type |-> type, id |-> id, payload |-> payload]

\* ------------------------------------------------------------ RtgdBuffer
NoStat == <<None, None>>
NoGust == <<None, None, None>>
\* windM_loop holds an average as numerator and denominator, then its time
NoAvg == <<None, 1, None>>

EmptyBuffer ==
    [ windsum |-> 0, windcount |-> 0, rainsum |-> 0,
      tempL_loop |-> NoStat, tempH_loop |-> NoStat,
      humL_loop |-> NoStat, humH_loop |-> NoStat,
      wgustM_loop |-> NoGust, windM_loop |-> NoAvg,
      wind_list |-> <<>>, wind_dir_list |-> <<>> ]

\* (a reset that empties the wind lists as well)
reset_everything(b) == EmptyBuffer
reset_loop_stats(b) ==
    [ b EXCEPT !.windsum = 0, !.windcount = 0, !.rainsum = 0,
               !.tempL_loop = NoStat, !.tempH_loop = NoStat,
               !.humL_loop = NoStat, !.humH_loop = NoStat,
               !.wgustM_loop = NoGust, !.windM_loop = NoAvg ]

RECURSIVE SumSpeeds(_)
SumSpeeds(l) == IF l = <<>> THEN 0 ELSE Head(l)[1] + SumSpeeds(Tail(l))

\* the average as <<numerator, denominator>>; 0.0 over an empty list
averageWind(wind_list) ==
    IF Len(wind_list) > 0 THEN <<SumSpeeds(wind_list), Len(wind_list)>>
    ELSE <<0, 1>>

RECURSIVE MaxSpeed(_)
MaxSpeed(l) ==
    IF l = <<>> THEN None ELSE PyMax(Head(l)[1], MaxSpeed(Tail(l)))

tenMinuteWindGust(wind_list) == MaxSpeed(wind_list)

\* (a comprehension that drops nothing)
RetainedAll(l, tsIndex, ts) == l
\* the list comprehensions that drop old samples keep s[ts] > old_ts
Retained(l, tsIndex, ts) ==
    SelectSeq(l, LAMBDA s : s[tsIndex] > ts - wind_period)

\* (a high that an equal value takes over as well)
NewHighOrEqual(value, stat) == value >= stat[1]
\* the tests that replace a loop high and a loop low
NewHigh(value, stat) == value > stat[1]
NewLow(value, stat) == value < stat[1] \/ stat[1] = None

\* (a gust record that takes a higher speed with the bearing it has when the
\* sample has none)
GustRecordKeepsBearing(windSpeed, windDir, ts, old) ==
    IF windSpeed > old[1]
    THEN <<windSpeed, IF windDir # None THEN windDir ELSE old[2], ts>>
    ELSE old
\* (a gust record that is never taken)
GustRecordNever(windSpeed, windDir, ts, old) == old
\* wgustM_loop: a new high gust is recorded only with its direction
GustRecord(windSpeed, windDir, ts, old) ==
    IF windSpeed > old[1] /\ windDir # None
    THEN <<windSpeed, windDir, ts>> ELSE old

\* (a wind count that leaves out the packets without a wind speed)
WindCountIfSpeed(count, packet) ==
    IF Get(packet, "windSpeed", None) # None THEN count + 1 ELSE count
\* self.windcount += 1, for every packet
WindCount(count, packet) == count + 1

setLowsAndHighs(b, packet) ==
    LET ts == packet.dateTime
        outTemp == Get(packet, "outTemp", None)
        rain == Get(packet, "rain", None)
        outHumidity == Get(packet, "outHumidity", None)
        windDir == Get(packet, "windDir", None)
        windSpeed0 == Get(packet, "windSpeed", 0)
        windSpeed == IF windSpeed0 = None THEN 0 ELSE windSpeed0
        tempL == IF outTemp # None /\ NewLow(outTemp, b.tempL_loop)
                 THEN <<outTemp, ts>> ELSE b.tempL_loop
        tempH == IF outTemp # None /\ NewHigh(outTemp, b.tempH_loop)
                 THEN <<outTemp, ts>> ELSE b.tempH_loop
        rainsum == b.rainsum + (IF rain # None THEN rain ELSE b.rainsum)
        humL == IF outHumidity # None /\ NewLow(outHumidity, b.humL_loop)
                THEN <<outHumidity, ts>> ELSE b.humL_loop
        humH == IF outHumidity # None /\ NewHigh(outHumidity, b.humH_loop)
                THEN <<outHumidity, ts>> ELSE b.humH_loop
        wgustM == GustRecord(windSpeed, windDir, ts, b.wgustM_loop)
        wind_list == Retained(Append(b.wind_list, <<windSpeed, ts>>), 2, ts)
        avg == averageWind(wind_list)
        windM == IF avg[1] * b.windM_loop[2] > b.windM_loop[1] * avg[2]
                 THEN <<avg[1], avg[2], ts>> ELSE b.windM_loop
        dir_list == IF windDir # None
                    THEN Append(b.wind_dir_list,
                                <<windSpeed * CosDeg(90 - windDir),
                                  windSpeed * SinDeg(90 - windDir),
                                  windSpeed, windDir, ts>>)
                    ELSE b.wind_dir_list
    IN  [ windsum |-> b.windsum + windSpeed,
          windcount |-> WindCount(b.windcount, packet),
          rainsum |-> rainsum,
          tempL_loop |-> tempL, tempH_loop |-> tempH,
          humL_loop |-> humL, humH_loop |-> humH,
          wgustM_loop |-> wgustM, windM_loop |-> windM,
          wind_list |-> wind_list,
          wind_dir_list |-> Retained(dir_list, 5, ts) ]

\* setLowsAndHighs raises: `self.rainsum += rain` with a rain that is not a
\* number
setLowsAndHighsRaises(packet) == Get(packet, "rain", None) = NotANumber

\* the buffer when setLowsAndHighs raises: outTemp has been processed, rain
\* and the wind have not
setLowsAndHighsPartial(b, packet) ==
    LET full == setLowsAndHighs(b, packet)
    IN [ b EXCEPT !.tempL_loop = full.tempL_loop,
                  !.tempH_loop = full.tempH_loop ]

\* ---------------------------------------------------------- CachedPacket
\* the record run passes to CachedPacket when the archive has no last good
\* record
NoRecord == [usUnits |-> None]

\* (a cache primed with the fields of rec only)
CachedPacketInitSparse(rec, clock) ==
    LET ts == IF "dateTime" \in DOMAIN rec THEN rec.dateTime ELSE clock
    IN [ cache |->
           [obs \in {o \in OBS : o \in DOMAIN rec /\ "usUnits" \in DOMAIN rec}
              |-> [value |-> rec[obs], ts |-> ts]],
         unit_system |-> Get(rec, "usUnits", None) ]

\* CachedPacket.__init__: every field of OBS gets an entry, primed from rec
\* where rec has the field and a unit system
CachedPacketInit(rec, clock) ==
    LET ts == IF "dateTime" \in DOMAIN rec THEN rec.dateTime ELSE clock
    IN [ cache |->
           [obs \in OBS |->
              IF obs \in DOMAIN rec /\ "usUnits" \in DOMAIN rec
              THEN [value |-> rec[obs], ts |-> ts]
              ELSE [value |-> None, ts |-> ts]],
         unit_system |-> Get(rec, "usUnits", None) ]

\* (an update that caches a None like any other value)
CachedPacketUpdateNone(c, packet, ts) ==
    LET fields == DOMAIN packet \ {"dateTime", "usUnits"}
    IN [ cache |->
           [obs \in DOMAIN c.cache \cup fields |->
              IF obs \in fields THEN [value |-> packet[obs], ts |-> ts]
              ELSE c.cache[obs]],
         unit_system |-> IF c.unit_system = None THEN packet.usUnits
                         ELSE c.unit_system ]
\* CachedPacket.update
CachedPacketUpdate(c, packet, ts) ==
    LET fields == {x \in DOMAIN packet \ {"dateTime", "usUnits"} :
                      packet[x] # None}
    IN [ cache |->
           [obs \in DOMAIN c.cache \cup fields |->
              IF obs \in fields THEN [value |-> packet[obs], ts |-> ts]
              ELSE c.cache[obs]],
         unit_system |-> IF c.unit_system = None THEN packet.usUnits
                         ELSE c.unit_system ]

\* (a get_value for which a value max_age old has expired)
get_value_younger(c, obs, ts, max_age) ==
    IF obs \in DOMAIN c.cache /\ ts - c.cache[obs].ts < max_age
    THEN c.cache[obs].value ELSE None
\* CachedPacket.get_value
get_value(c, obs, ts, max_age) ==
    IF obs \in DOMAIN c.cache /\ ts - c.cache[obs].ts <= max_age
    THEN c.cache[obs].value ELSE None

get_packet(c, ts, max_age) ==
    [f \in DOMAIN c.cache \cup {"dateTime", "usUnits"} |->
        IF f = "dateTime" THEN ts
        ELSE IF f = "usUnits" THEN c.unit_system
        ELSE get_value(c, f, ts, max_age)]

\* --------------------------------------------------------- calc_windrose
\* ROUND(windDir/angle) of the SQL query, angle = 360/points
Sector(windDir, points) == (2 * windDir * points + 360) \div 720

\* the sum of the speeds that are not None of the records with the indices
\* idx
RECURSIVE SpeedSum(_, _)
SpeedSum(records, idx) ==
    IF idx = {} THEN 0
    ELSE LET i == CHOOSE j \in idx : TRUE
             speed == records[i].windSpeed
         IN (IF speed # None THEN speed ELSE 0)
            + SpeedSum(records, idx \ {i})

\* SQL's sum(windSpeed) over the records idx: NULLs are left out, and the
\* sum of nothing but NULLs is NULL
SqlSum(records, idx) ==
    IF \A i \in idx : records[i].windSpeed = None THEN None
    ELSE SpeedSum(records, idx)

\* (a WHERE clause that keeps the record stamped ts)
InWindowFrom(dateTime, ts) == dateTime >= ts
\* WHERE dateTime>ts
InWindow(dateTime, ts) == dateTime > ts

\* the rows the query returns: one <<sector, sum>> for every sector that a
\* record later than ts falls in, the sector None for the records whose
\* windDir is None
WindroseRows(records, ts, points) ==
    LET kept == {i \in 1..Len(records) : InWindow(records[i].dateTime, ts)}
        group(i) == IF records[i].windDir = None THEN None
                    ELSE Sector(records[i].windDir, points)
    IN { <<group(i), SqlSum(records, {j \in kept : group(j) = group(i)})>> :
            i \in kept }

\* (a loop over the rows that drops the row of sector `points`)
RoseIndexNoWrap(row, points) == IF row[1] # points THEN row[1] ELSE points
\* the entry a row is added to: its sector, or 0 for sector `points`
RoseIndex(row, points) == IF row[1] # points THEN row[1] ELSE 0

\* (the test the other way round: the rows without a None are skipped)
RowHasNoNone(row) == row[1] # None /\ row[2] # None
\* `None in _row`
RowHasNone(row) == row[1] = None \/ row[2] = None

\* what the loop over the rows leaves in entry k (0-based): the sums of the
\* rows added to it, rows with a None skipped
RECURSIVE RoseSum(_, _, _)
RoseSum(rows, points, k) ==
    IF rows = {} THEN 0
    ELSE LET row == CHOOSE r \in rows : TRUE
             counted == /\ ~RowHasNone(row)
                        /\ RoseIndex(row, points) = k
         IN (IF counted THEN row[2] ELSE 0)
            + RoseSum(rows \ {row}, points, k)

\* round(x, 1) of a value in hundredths
Round1(x) == ((x + 5) \div 10) * 10

calc_windrose(clock, records, period, points) ==
    LET rows == WindroseRows(records, clock - period, points)
    IN [k \in 1..points |-> Round1(RoseSum(rows, points, k - 1))]

\* ------------------------------------------------------------ calc_trend
Abs(x) == IF x < 0 THEN -x ELSE x

\* db_manager.getRecord(ts, grace): the index of the record nearest to ts
\* among those no more than grace away from it, 0 when there is none
getRecord(rows, ts, grace) ==
    LET near == {i \in 1..Len(rows) : Abs(rows[i].dateTime - ts) <= grace}
    IN IF near = {} THEN 0
       ELSE CHOOSE i \in near :
              \A j \in near :
                 \/ Abs(rows[i].dateTime - ts) < Abs(rows[j].dateTime - ts)
                 \/ /\ Abs(rows[i].dateTime - ts) = Abs(rows[j].dateTime - ts)
                    /\ i <= j

\* what a call of calc_trend does: return a number, return None, or raise
TrendValue(v) == [kind |-> "value", value |-> v]
TrendNone == [kind |-> "None", value |-> 0]
TrendRaises == [kind |-> "raises", value |-> 0]

\* calc_trend; `now - then` with then None is a TypeError
calc_trend(obs_type, now_value, rows, then_ts, grace) ==
    IF now_value = None THEN TrendNone
    ELSE LET i == getRecord(rows, then_ts, grace)
         IN IF i = 0 THEN TrendNone
            ELSE IF obs_type \notin DOMAIN rows[i] THEN TrendNone
            ELSE IF rows[i][obs_type] = None THEN TrendRaises
            ELSE TrendValue(now_value - rows[i][obs_type])

\* ------------------------------------------------------ get_lost_contact
\* the field and the value that say contact is lost (the stations whose
\* field is rxCheckPercent all have the value 0)
STATION_LOST_CONTACT(station) ==
    IF station = "FineOffsetUSB" THEN [field |-> "status", value |-> 64]
    ELSE [field |-> "rxCheckPercent", value |-> 0]
ARCHIVE_STATIONS == {"Vantage"}
LOOP_STATIONS == {"FineOffsetUSB"}

\* get_lost_contact with the settings as arguments; a record without the
\* field raises KeyError, which gives True
LostContact(station, ignore, rec, type) ==
    IF /\ ~ignore
       /\ \/ type = "loop" /\ station \in LOOP_STATIONS
          \/ type = "archive" /\ station \in ARCHIVE_STATIONS
    THEN LET check == STATION_LOST_CONTACT(station)
         IN IF check.field \in DOMAIN rec
            THEN rec[check.field] = check.value
            ELSE TRUE
    ELSE FALSE

\* ------------------------------------------------------------- calculate
NoSummary == [min |-> None, mintime |-> None, max |-> None, maxtime |-> None]
NoWind == [max |-> None, maxtime |-> None, max_dir |-> None]
\* the day summary of a day without data
NoDay ==
    [obs \in SummaryObs \cup {"wind"} |->
        IF obs = "wind" THEN NoWind ELSE NoSummary]
NoData == [dateTime |-> None]
\* scroller_text when it is None: no text has arrived
NoText == << "None" >>

\* (a strftime that leaves the directives in the text)
strftime_verbatim(format, t) == format
\* time.strftime(format, time.localtime(t)): every %H becomes the hour of t
strftime(format, t) ==
    [i \in DOMAIN format |->
        IF format[i] = "%H" THEN ToString((t \div 3600) % 24)
        ELSE format[i]]

\* windsum/windcount of the loop part of windrun, as numerator and
\* denominator: a division by zero is not among the exceptions caught there
LoopWindAverage(b) == <<b.windsum, b.windcount>>

\* no generation has been started
NoGen == [started |-> FALSE]

\* the locals of calculate that the claims speak of
Locals(packet, rows) ==
    [ started |-> TRUE,
      packet |-> packet,
      temptrend |-> IF "outTemp" \in DOMAIN packet
                    THEN calc_trend("outTemp", packet.outTemp, rows,
                                    packet.dateTime - TrendPeriod, TrendGrace)
                    ELSE TrendRaises ]

\* calculate raises: packet_d['outTemp'], packet_d['outHumidity'],
\* packet_d['windSpeed'] or packet_d['windDir'] on a packet without the
\* field, or calc_trend
CalculateRaises(packet, rows) ==
    \/ ~({"outTemp", "outHumidity", "windSpeed", "windDir"}
             \subseteq DOMAIN packet)
    \/ Locals(packet, rows).temptrend.kind = "raises"

calculate(packet, b, day, lost_contact, windrose, text, rows, clock) ==
    LET temp == IF packet.outTemp # None THEN packet.outTemp ELSE 0
        trend == Locals(packet, rows).temptrend
        wgust == tenMinuteWindGust(b.wind_list)
        tempL_loop == b.tempL_loop[1]
        tempH_loop == b.tempH_loop[1]
        tempTL0 == min_with_none(tempL_loop, day.outTemp.min)
        tempTL == IF tempTL0 # None THEN tempTL0 ELSE temp
        tempTH0 == PyMax(tempH_loop, day.outTemp.max)
        tempTH == IF tempTH0 # None THEN tempTH0 ELSE temp
        hum == IF packet.outHumidity # None THEN packet.outHumidity ELSE 0
        humTL0 == min_with_none(b.humL_loop[1], day.outHumidity.min)
        humTH0 == PyMax(PyMax(b.humH_loop[1], day.outHumidity.max), 0)
        wgustM_loop == b.wgustM_loop[1]
        wgustTM == PyMax(PyMax(wgustM_loop, day.wind.max), 0)
        bearingTM == IF day.wind.max_dir # None THEN day.wind.max_dir ELSE 0
    IN  [ dateTime |-> packet.dateTime,
          SensorContactLost |-> IF lost_contact THEN 1 ELSE 0,
          temp |-> temp,
          tempTL |-> tempTL,
          tempTH |-> tempTH,
          TtempTL |-> IF tempL_loop >= tempTL
                      THEN localtime(day.outTemp.mintime, clock)
                      ELSE localtime(b.tempL_loop[2], clock),
          TtempTH |-> IF tempH_loop <= tempTH
                      THEN localtime(day.outTemp.maxtime, clock)
                      ELSE localtime(b.tempH_loop[2], clock),
          hum |-> hum,
          humTL |-> IF humTL0 # None THEN humTL0 ELSE hum,
          humTH |-> IF humTH0 # None THEN humTH0 ELSE hum,
          temptrend |-> IF trend.kind = "value" THEN trend.value ELSE 0,
          wgust |-> IF wgust # None THEN wgust ELSE 0,
          wgustTM |-> wgustTM,
          TwgustTM |-> IF wgustM_loop <= wgustTM
                       THEN localtime(day.wind.maxtime, clock)
                       ELSE localtime(b.wgustM_loop[3], clock),
          bearingTM |-> IF wgustTM = wgustM_loop THEN b.wgustM_loop[2]
                        ELSE bearingTM,
          windrun_loop |-> LoopWindAverage(b),
          WindRoseData |-> windrose,
          forecast |-> strftime(IF text # NoText THEN text ELSE <<>>,
                                packet.dateTime) ]

\* ------------------------------------------------------------------ Init
\* the windrose_period setting: the default, or in the store scenario as
\* long as the wind lists reach back
windrose_period == IF scenario = "store" THEN 2 * TickSeconds ELSE wr_period

\* the mtd_rain setting: on in the day and queue scenarios (ytd_rain is off)
mtd_rain == scenario \in {"day", "queue"}

\* the station: a Vantage in the day scenario, the Simulator otherwise
station_type == IF scenario = "day" THEN "Vantage" ELSE "Simulator"
\* the ignore_lost_contact setting
ignore_lcontact == FALSE

\* lastGoodStamp and getRecord in run: the newest record, if any
LastGoodRecord(rows) == IF rows = <<>> THEN NoRecord ELSE rows[Len(rows)]

InitCommon ==
    /\ now = StartTime
    /\ engineUp = TRUE
    /\ nextId = 1
    /\ day_true = day_summary
    /\ control_queue = <<>>
    /\ result_queue = <<>>
    /\ source_ctl_queue = <<>>
    /\ source_pc = "run"
    /\ pc = "get"
    /\ last_write = 0
    /\ scroller_text = NoText
    /\ stats = IF mtd_rain
               THEN [min_barometer |-> None, max_barometer |-> None,
                     month_rain |-> None]
               ELSE [min_barometer |-> None, max_barometer |-> None]
    /\ packet_cache = CachedPacketInit(LastGoodRecord(archive_table),
                                       StartTime)
    /\ buffer = EmptyBuffer
    /\ day_stats = day_summary
    /\ lost_contact_flag = FALSE
    /\ rose = calc_windrose(StartTime, archive_table, windrose_period,
                            wr_points)
    /\ data = NoData
    /\ last_handled = [id |-> 0, type |-> "none"]
    /\ last_trimmed = 0
    /\ trim_dropped = FALSE
    /\ resets = 0
    /\ refreshes = 0
    /\ seen = [lo |-> None, hi |-> None]
    /\ outcome = "none"
    /\ prev_write = None
    /\ since_reset = {}
    /\ rain_true = 0
    /\ gen = NoGen
    /\ rose_call = [now |-> StartTime, rows |-> Len(archive_table)]

\* the data scenario: varied packets, min_interval unset or set
InitData ==
    /\ scenario = "data"
    /\ day_summary = NoDay
    /\ archive_table = <<>>
    /\ InitCommon
    /\ budget = DataEvents
    /\ min_interval \in MinIntervals

\* the queue scenario: enough events to overrun the backlog, one kind of
\* packet, min_interval unset
InitQueue ==
    /\ scenario = "queue"
    /\ day_summary = NoDay
    /\ archive_table = <<>>
    /\ InitCommon
    /\ budget = QueueEvents
    /\ min_interval = None

\* the store scenario: an archive with or without history, varied archive
\* records, one kind of packet, min_interval unset
InitStore ==
    /\ scenario = "store"
    /\ day_summary = NoDay
    /\ archive_table \in StoreHistories
    /\ InitCommon
    /\ budget = StoreEvents
    /\ min_interval = None

\* the day scenario: the day summary with or without earlier values, packets
\* with and without outTemp, min_interval unset
InitDay ==
    /\ scenario = "day"
    /\ day_summary \in DayHistories
    /\ archive_table = <<>>
    /\ InitCommon
    /\ budget = DayEvents
    /\ min_interval = None

get_lost_contact(rec, type) ==
    LostContact(station_type, ignore_lcontact, rec, type)

Samples ==
    IF scenario = "data" THEN RichSamples
    ELSE IF scenario = "day" THEN DaySamples
    ELSE IF scenario = "store" THEN StoreSamples
    ELSE PlainSamples
Winds == IF scenario = "store" THEN StoreWinds ELSE ArchiveWinds
\* rxCheckPercent of the archive records of a Vantage: no reception, full
\* reception; other stations have no such field
RxChecks == IF station_type = "Vantage" THEN {0, 100} ELSE {None}
Forecasts == IF scenario = "day" THEN {PlainText, DatedText} ELSE {PlainText}
\* how far the clock moves between two events
Ticks == IF scenario = "queue" THEN {TickSeconds} ELSE TickSizes

\* --------------------------------------- the engine, the clock, the source
\* the store's running day summary: first occurrence of each extreme
Summarise(s, v, ts) ==
    IF v = None THEN s
    ELSE [ min |-> IF s.min = None \/ v < s.min THEN v ELSE s.min,
           mintime |-> IF s.min = None \/ v < s.min THEN ts ELSE s.mintime,
           max |-> IF v > s.max THEN v ELSE s.max,
           maxtime |-> IF v > s.max THEN ts ELSE s.maxtime ]

\* the same for the wind: the highest speed with its time and direction
SummariseWind(w, s, ts) ==
    LET speed == Get(s, "windSpeed", None)
    IN IF speed # None /\ speed > w.max
       THEN [max |-> speed, maxtime |-> ts,
             max_dir |-> Get(s, "windDir", None)]
       ELSE w

SummariseAll(day, s, ts) ==
    [obs \in DOMAIN day |->
        IF obs = "wind" THEN SummariseWind(day[obs], s, ts)
        ELSE Summarise(day[obs], Get(s, obs, None), ts)]

new_loop_packet ==
    /\ engineUp /\ budget > 0
    /\ \E s \in Samples :
        LET packet == [f \in DOMAIN s \cup {"dateTime", "usUnits"} |->
                          IF f = "dateTime" THEN now
                          ELSE IF f = "usUnits" THEN US ELSE s[f]]
        IN /\ control_queue' =
                  QueuePut(control_queue, Package("loop", nextId, packet))
           /\ day_true' = SummariseAll(day_true, s, now)
    /\ nextId' = nextId + 1
    /\ budget' = budget - 1
    /\ UNCHANGED <<now, engineUp, scenario, archive_table, sourceVars,
                   day_summary, result_queue, threadVars, historyVars>>

\* the engine has written the record to the archive, and with it the day
\* summary, when it announces it; the callback queues the record, then the
\* all-time barometer extremes and, with mtd_rain on, the month's rain if
\* get_rain returned any
new_archive_record ==
    /\ engineUp /\ budget > 0
    /\ \A i \in 1..Len(archive_table) : archive_table[i].dateTime < now
    /\ \E w \in Winds, minmax \in StatsPayloads,
          rain \in (IF mtd_rain THEN MonthRains ELSE {None}),
          rx \in RxChecks :
        LET plain == [dateTime |-> now, usUnits |-> US,
                      windSpeed |-> w[1], windDir |-> w[2]]
            record == IF rx = None THEN plain
                      ELSE [f \in DOMAIN plain \cup {"rxCheckPercent"} |->
                               IF f = "rxCheckPercent" THEN rx ELSE plain[f]]
            queued == QueuePut(QueuePut(control_queue,
                                        Package("archive", nextId, record)),
                               Package("stats", nextId + 1, minmax))
        IN /\ archive_table' = Append(archive_table, record)
           /\ IF mtd_rain /\ rain # None
              THEN /\ control_queue' =
                         QueuePut(queued,
                                  Package("stats", nextId + 2,
                                          [month_rain |-> rain]))
                   /\ nextId' = nextId + 3
              ELSE /\ control_queue' = queued
                   /\ nextId' = nextId + 2
    /\ day_summary' = day_true
    /\ budget' = budget - 1
    /\ UNCHANGED <<now, engineUp, scenario, day_true, sourceVars,
                   result_queue, threadVars, historyVars>>

end_archive_period ==
    /\ engineUp /\ budget > 0
    /\ control_queue' =
           QueuePut(control_queue,
                    Package("event", nextId,
                            [event |-> "END_ARCHIVE_PERIOD"]))
    /\ nextId' = nextId + 1
    /\ budget' = budget - 1
    /\ UNCHANGED <<now, engineUp, scenario, archive_table, sourceVars,
                   day_summary, day_true, result_queue, threadVars,
                   historyVars>>

\* hasattr(self, 'source_thread') in shutDown: __init__ keeps the source
\* object in self.source, and nothing sets an attribute source_thread
HasSourceThread == FALSE

\* the engine calls shutDown once, when it stops delivering events: a None
\* for the worker if it is alive, a None for the source thread if the
\* service has the attribute and the thread is alive
shutDown ==
    /\ engineUp
    /\ engineUp' = FALSE
    /\ IF pc # "stopped"
       THEN /\ control_queue' =
                   QueuePut(control_queue,
                            Package("None", nextId, [none |-> TRUE]))
            /\ nextId' = nextId + 1
       ELSE UNCHANGED <<control_queue, nextId>>
    /\ IF HasSourceThread /\ source_pc = "run"
       THEN source_ctl_queue' = QueuePut(source_ctl_queue, "None")
       ELSE UNCHANGED source_ctl_queue
    /\ UNCHANGED <<now, scenario, budget, archive_table, source_pc,
                   day_summary, day_true, result_queue, threadVars,
                   historyVars>>

Tick ==
    /\ budget > 0
    /\ budget' = budget - 1
    /\ \E d \in Ticks : now' = now + d
    /\ UNCHANGED <<engineUp, scenario, nextId, archive_table, sourceVars,
                   day_summary, day_true, queueVars, threadVars, historyVars>>

\* one round of ThreadedSource.run: the source puts a forecast package on
\* the result queue, then looks at its control queue and returns on a None
ForecastArrives ==
    /\ source_pc = "run"
    /\ budget > 0
    /\ budget' = budget - 1
    /\ \E text \in Forecasts :
          result_queue' =
             QueuePut(result_queue, [type |-> "forecast", payload |-> text])
    /\ IF source_ctl_queue # <<>>
       THEN LET got == QueueGet(source_ctl_queue)
            IN /\ source_ctl_queue' = got[2]
               /\ source_pc' = IF got[1] = "None" THEN "stopped" ELSE "run"
       ELSE UNCHANGED sourceVars
    /\ UNCHANGED <<now, engineUp, scenario, nextId, archive_table,
                   day_summary, day_true, control_queue, threadVars,
                   historyVars>>

\* ----------------------------------------- RealtimeGaugeDataThread.run
\* (a generation test that lets a packet through exactly min_interval after
\* the last generation)
ThrottleOpenAtInterval(interval, written, clock) ==
    interval = None \/ written + interval <= clock
\* the generation test of process_packet
ThrottleOpen(interval, written, clock) ==
    interval = None \/ written + interval < clock

Handled(package) == [id |-> package.id, type |-> package.type]

\* result_queue.get_nowait() at the top of every iteration of the inner loop:
\* a forecast package sets the scroller text, an empty queue changes nothing
PollResultQueue ==
    IF result_queue # <<>>
    THEN LET got == QueueGet(result_queue)
         IN /\ result_queue' = got[2]
            /\ scroller_text' = IF got[1].type = "forecast"
                                THEN got[1].payload ELSE scroller_text
    ELSE UNCHANGED <<result_queue, scroller_text>>

\* control_queue.get(True, 1.0) raises Queue.Empty: on to the backlog check
ControlQueueTimeout ==
    /\ pc = "get"
    /\ PollResultQueue
    /\ control_queue = <<>>
    /\ pc' = "trim"
    /\ UNCHANGED <<envVars, control_queue, min_interval, last_write,
                   stats, packet_cache, buffer, day_stats,
                   lost_contact_flag,
                   rose, data, historyVars>>

\* (a None package that is taken and ignored: continue)
HandleShutdownContinue ==
    /\ pc = "get"
    /\ PollResultQueue
    /\ control_queue # <<>>
    /\ LET got == QueueGet(control_queue)
       IN /\ got[1].type = "None"
          /\ control_queue' = got[2]
          /\ last_handled' = Handled(got[1])
    /\ pc' = "get"
    /\ UNCHANGED <<envVars, min_interval, last_write,
                   stats, packet_cache, buffer, day_stats,
                   lost_contact_flag,
                   rose, data, last_trimmed, trim_dropped, resets, refreshes,
                   seen, outcome, prev_write, since_reset, rain_true, gen,
                   rose_call>>

\* a None package: return
HandleShutdown ==
    /\ pc = "get"
    /\ PollResultQueue
    /\ control_queue # <<>>
    /\ LET got == QueueGet(control_queue)
       IN /\ got[1].type = "None"
          /\ control_queue' = got[2]
          /\ last_handled' = Handled(got[1])
    /\ pc' = "stopped"
    /\ UNCHANGED <<envVars, min_interval, last_write,
                   stats, packet_cache, buffer, day_stats,
                   lost_contact_flag,
                   rose, data, last_trimmed, trim_dropped, resets, refreshes, seen,
                   outcome, prev_write, since_reset, rain_true, gen,
                   rose_call>>

\* what the archive store does when an archive record is handled: it
\* answers, or (in the store scenario) raises in _get_day_summary or in the
\* windrose query
StoreFailures ==
    IF scenario = "store" THEN {"none", "day summary", "windrose"}
    ELSE {"none"}

\* an archive record: new_archive_record, then calc_windrose; continue.
\* Neither call is in a try: an exception of the store leaves run
HandleArchive ==
    /\ pc = "get"
    /\ PollResultQueue
    /\ control_queue # <<>>
    /\ LET got == QueueGet(control_queue)
       IN /\ got[1].type = "archive"
          /\ control_queue' = got[2]
          /\ last_handled' = Handled(got[1])
          /\ \E failure \in StoreFailures :
                /\ lost_contact_flag' =
                       get_lost_contact(got[1].payload, "archive")
                /\ IF failure = "day summary"
                   THEN UNCHANGED <<day_stats, refreshes>>
                   ELSE /\ day_stats' = day_summary
                        /\ refreshes' = refreshes + 1
                /\ IF failure = "none"
                   THEN /\ rose' = calc_windrose(got[1].payload.dateTime,
                                                 archive_table,
                                                 windrose_period, wr_points)
                        /\ rose_call' = [now |-> got[1].payload.dateTime,
                                         rows |-> Len(archive_table)]
                        /\ pc' = "get"
                   ELSE /\ UNCHANGED <<rose, rose_call>>
                        /\ pc' = "stopped"
    /\ UNCHANGED <<envVars, min_interval, last_write,
                   stats, packet_cache, buffer, data, last_trimmed,
                   trim_dropped, resets, seen, outcome, prev_write,
                   since_reset, rain_true, gen>>

\* an END_ARCHIVE_PERIOD event: end_archive_period; continue
HandleEvent ==
    /\ pc = "get"
    /\ PollResultQueue
    /\ control_queue # <<>>
    /\ LET got == QueueGet(control_queue)
       IN /\ got[1].type = "event"
          /\ control_queue' = got[2]
          /\ last_handled' = Handled(got[1])
          /\ IF got[1].payload.event = "END_ARCHIVE_PERIOD"
             THEN /\ buffer' = reset_loop_stats(buffer)
                  /\ resets' = resets + 1
                  /\ since_reset' = {}
                  /\ rain_true' = 0
             ELSE UNCHANGED <<buffer, resets, since_reset, rain_true>>
    /\ pc' = "get"
    /\ UNCHANGED <<envVars, min_interval, last_write,
                   stats, packet_cache, day_stats, lost_contact_flag, rose,
                   data,
                   last_trimmed, trim_dropped, refreshes, seen, outcome,
                   prev_write, gen, rose_call>>

\* (a process_stats that keeps nothing but the payload)
process_stats_payload_only(attrs, payload) ==
    IF payload = NonePayload THEN attrs ELSE payload
\* process_stats: setattr for every key of the payload, nothing for a
\* payload that is None
process_stats(attrs, payload) ==
    IF payload = NonePayload THEN attrs
    ELSE [k \in DOMAIN attrs \cup DOMAIN payload |->
             IF k \in DOMAIN payload THEN payload[k] ELSE attrs[k]]

\* (a stats package that resets the loop stats as well)
HandleStatsResets ==
    /\ pc = "get"
    /\ PollResultQueue
    /\ control_queue # <<>>
    /\ LET got == QueueGet(control_queue)
       IN /\ got[1].type = "stats"
          /\ control_queue' = got[2]
          /\ last_handled' = Handled(got[1])
          /\ stats' = process_stats(stats, got[1].payload)
          /\ buffer' = reset_loop_stats(buffer)
    /\ pc' = "get"
    /\ UNCHANGED <<envVars, min_interval, last_write,
                   packet_cache, day_stats, lost_contact_flag, rose,
                   data,
                   last_trimmed, trim_dropped, resets, refreshes, seen, outcome,
                   prev_write, since_reset, rain_true, gen, rose_call>>

HandleStats ==
    /\ pc = "get"
    /\ PollResultQueue
    /\ control_queue # <<>>
    /\ LET got == QueueGet(control_queue)
       IN /\ got[1].type = "stats"
          /\ control_queue' = got[2]
          /\ last_handled' = Handled(got[1])
          /\ stats' = process_stats(stats, got[1].payload)
    /\ pc' = "get"
    /\ UNCHANGED <<envVars, min_interval, last_write,
                   packet_cache, buffer, day_stats, lost_contact_flag, rose,
                   data,
                   last_trimmed, trim_dropped, resets, refreshes, seen, outcome,
                   prev_write, since_reset, rain_true, gen, rose_call>>

\* (a process_packet that updates the cache and the buffer only when it
\* generates)
process_packet_throttled(packet) ==
    IF ThrottleOpen(min_interval, last_write, now)
    THEN /\ packet_cache' =
                CachedPacketUpdate(packet_cache, packet, packet.dateTime)
         /\ buffer' = setLowsAndHighs(buffer, packet)
         /\ LET cached_packet == get_packet(packet_cache', packet.dateTime,
                                            max_cache_age)
            IN /\ gen' = Locals(cached_packet, archive_table)
               /\ ~CalculateRaises(cached_packet, archive_table)
               /\ lost_contact_flag' = get_lost_contact(cached_packet, "loop")
               /\ data' = calculate(cached_packet, buffer', day_stats,
                                    lost_contact_flag', rose,
                                    scroller_text', archive_table, now)
         /\ last_write' = now
         /\ prev_write' = IF last_write = 0 THEN None ELSE last_write
         /\ outcome' = "generated"
    ELSE /\ outcome' = "skipped"
         /\ UNCHANGED <<packet_cache, buffer, data, last_write, prev_write,
                        gen, lost_contact_flag>>

\* (a run that goes on to the next package after any exception)
AfterPacketGoesOn(result) == "get"
\* run after process_packet: an exception that left process_packet is logged
\* and run returns; otherwise continue
AfterPacket(result) == IF result = "raised" THEN "stopped" ELSE "get"

\* (a write time that is set whether or not the generation succeeded)
LastWriteAlways(result, written, clock) == clock
\* last_write after the try block of process_packet: the assignment follows
\* calculate and write_data and is skipped by their exception
LastWrite(result, written, clock) ==
    IF result = "generated" THEN clock ELSE written

\* process_packet: the cache and the buffer are updated, then gauge-data is
\* generated if the throttle allows: the lost contact flag is set from the
\* cached packet, then calculate or write_data may raise, which is logged
\* and leaves last_write alone; an exception of setLowsAndHighs leaves
\* process_packet
process_packet(packet) ==
    /\ packet_cache' = CachedPacketUpdate(packet_cache, packet, packet.dateTime)
    /\ IF setLowsAndHighsRaises(packet)
       THEN /\ buffer' = setLowsAndHighsPartial(buffer, packet)
            /\ outcome' = "raised"
            /\ UNCHANGED <<data, last_write, prev_write, gen,
                           lost_contact_flag>>
       ELSE /\ buffer' = setLowsAndHighs(buffer, packet)
            /\ IF ThrottleOpen(min_interval, last_write, now)
               THEN LET cached_packet ==
                            get_packet(packet_cache', packet.dateTime,
                                       max_cache_age)
                    IN /\ gen' = Locals(cached_packet, archive_table)
                       /\ lost_contact_flag' =
                              get_lost_contact(cached_packet, "loop")
                       /\ \/ /\ ~CalculateRaises(cached_packet, archive_table)
                             /\ data' = calculate(cached_packet, buffer',
                                                  day_stats,
                                                  lost_contact_flag', rose,
                                                  scroller_text',
                                                  archive_table, now)
                             /\ last_write' =
                                    LastWrite("generated", last_write, now)
                             /\ prev_write' =
                                    IF last_write = 0 THEN None
                                    ELSE last_write
                             /\ outcome' = "generated"
                          \/ /\ outcome' = "failed"
                             /\ last_write' =
                                    LastWrite("failed", last_write, now)
                             /\ UNCHANGED <<data, prev_write>>
               ELSE /\ outcome' = "skipped"
                    /\ UNCHANGED <<data, last_write, prev_write, gen,
                                   lost_contact_flag>>

HandleLoop ==
    /\ pc = "get"
    /\ PollResultQueue
    /\ control_queue # <<>>
    /\ LET got == QueueGet(control_queue)
       IN /\ got[1].type = "loop"
          /\ control_queue' = got[2]
          /\ last_handled' = Handled(got[1])
          /\ process_packet(got[1].payload)
          /\ LET outTemp == Get(got[1].payload, "outTemp", None)
                 rain == Get(got[1].payload, "rain", None)
             IN /\ seen' = [ lo |-> min_with_none(seen.lo, outTemp),
                             hi |-> PyMax(seen.hi, outTemp) ]
                /\ since_reset' =
                       IF outTemp = None THEN since_reset
                       ELSE since_reset \cup
                                {<<outTemp, got[1].payload.dateTime>>}
                /\ rain_true' =
                       rain_true + (IF rain \in {None, NotANumber} THEN 0
                                    ELSE rain)
    /\ pc' = AfterPacket(outcome')
    /\ UNCHANGED <<envVars, min_interval, stats,
                   day_stats, rose, last_trimmed, trim_dropped, resets,
                   refreshes, rose_call>>

\* (a trim that discards the newest package)
TrimBacklogDropNewest ==
    /\ pc = "trim"
    /\ IF Len(control_queue) > MaxBacklog
       THEN LET got == QueueGetNewest(control_queue)
            IN /\ control_queue' = got[2]
               /\ last_trimmed' = got[1].id
               /\ trim_dropped' = TRUE
               /\ pc' = "trim"
       ELSE /\ trim_dropped' = FALSE
            /\ pc' = "get"
            /\ UNCHANGED <<control_queue, last_trimmed>>
    /\ UNCHANGED <<envVars, result_queue, min_interval, last_write,
                   scroller_text, stats, packet_cache, buffer, day_stats,
                   lost_contact_flag,
                   rose, data, last_handled, resets, refreshes, seen,
                   outcome, prev_write, since_reset, rain_true, gen,
                   rose_call>>

\* (a trim that runs while the queue holds MaxBacklog packages or more)
TrimBacklogOffByOne ==
    /\ pc = "trim"
    /\ IF Len(control_queue) >= MaxBacklog
       THEN LET got == QueueGet(control_queue)
            IN /\ control_queue' = got[2]
               /\ last_trimmed' = got[1].id
               /\ trim_dropped' = TRUE
               /\ pc' = "trim"
       ELSE /\ trim_dropped' = FALSE
            /\ pc' = "get"
            /\ UNCHANGED <<control_queue, last_trimmed>>
    /\ UNCHANGED <<envVars, result_queue, min_interval, last_write,
                   scroller_text, stats, packet_cache, buffer, day_stats,
                   lost_contact_flag,
                   rose, data, last_handled, resets, refreshes, seen,
                   outcome, prev_write, since_reset, rain_true, gen,
                   rose_call>>

\* one round of `while self.control_queue.qsize() > 5: self.control_queue.get()`
TrimBacklog ==
    /\ pc = "trim"
    /\ IF Len(control_queue) > MaxBacklog
       THEN LET got == QueueGet(control_queue)
            IN /\ control_queue' = got[2]
               /\ last_trimmed' = got[1].id
               /\ trim_dropped' = TRUE
               /\ pc' = "trim"
       ELSE /\ trim_dropped' = FALSE
            /\ pc' = "get"
            /\ UNCHANGED <<control_queue, last_trimmed>>
    /\ UNCHANGED <<envVars, result_queue, min_interval, last_write,
                   scroller_text, stats, packet_cache, buffer, day_stats,
                   lost_contact_flag,
                   rose, data, last_handled, resets, refreshes, seen,
                   outcome, prev_write, since_reset, rain_true, gen,
                   rose_call>>

Worker ==
    \/ ControlQueueTimeout
    \/ HandleShutdown
    \/ HandleArchive
    \/ HandleEvent
    \/ HandleStats
    \/ HandleLoop
    \/ TrimBacklog

Next ==
    \/ new_loop_packet
    \/ new_archive_record
    \/ end_archive_period
    \/ shutDown
    \/ Tick
    \/ ForecastArrives
    \/ ControlQueueTimeout
    \/ HandleShutdown
    \/ HandleArchive
    \/ HandleEvent
    \/ HandleStats
    \/ HandleLoop
    \/ TrimBacklog

\* the data scenario
Spec == InitData /\ [][Next]_vars
\* the queue scenario
SpecQueue == InitQueue /\ [][Next]_vars
\* the store scenario
SpecStore == InitStore /\ [][Next]_vars
\* the day scenario
SpecDay == InitDay /\ [][Next]_vars
\* the queue scenario with the thread scheduled fairly
SpecQueueFair == InitQueue /\ [][Next]_vars /\ WF_vars(Worker)

\* ================================================================ claims
HandledStep == last_handled' # last_handled
LoopStep == HandledStep /\ last_handled'.type = "loop"
ResetStep == resets' = resets + 1
QueuedIds == {control_queue[i].id : i \in 1..Len(control_queue)}
SentinelQueued == \E i \in 1..Len(control_queue) : control_queue[i].type = "None"

\* C1: packages are handled in the order they were enqueued: every package
\* handled was enqueued after the package handled before it, whatever the
\* types of the two.
C1_HandledInEnqueueOrder ==
    [][HandledStep => last_handled'.id > last_handled.id]_vars

\* an archive record, its stats package, an END_ARCHIVE_PERIOD event and a
\* loop packet have been handled, the loop packet last
C1_Witness ==
    /\ last_handled.type = "loop"
    /\ refreshes > 0 /\ resets > 0
    /\ stats.max_barometer # None

\* C2: once the None package has been taken, the thread changes nothing: no
\* package is handled or discarded, and the buffer, the cache, day_stats,
\* the rose, the scroller text and the output stay as they are.
C2_NothingAfterSentinel ==
    [][last_handled.type = "None" =>
          UNCHANGED <<threadVars, control_queue, last_handled, last_trimmed,
                      resets, refreshes, seen, outcome>>]_vars

\* the thread has returned and a forecast package waits on the result queue
C2_Witness ==
    /\ pc = "stopped"
    /\ last_handled.type = "None"
    /\ result_queue # <<>>
    /\ buffer.windcount > 0

\* C3: once the None package is on the control queue the thread eventually
\* returns, whatever is queued before it and however the engine's callbacks
\* interleave with the thread, the backlog trim included.
C3_SentinelStopsThread == SentinelQueued ~> (pc = "stopped")

\* the thread has returned after the backlog trim discarded packages
C3_Witness ==
    /\ pc = "stopped"
    /\ last_trimmed > 0

\* C4: after every iteration that handled a package, the backlog check runs
\* before the next package is taken.
C4_BacklogCheckAfterEveryIteration ==
    [][(HandledStep /\ pc' # "stopped") => pc' = "trim"]_vars

\* C5: the trim discards the oldest packages: every package left in the
\* queue was enqueued after every package discarded, the packages left are
\* in the order they were enqueued, and a run of the trim that discarded
\* something leaves exactly MaxBacklog packages.
C5_TrimDropsOldest ==
    /\ [](\A id \in QueuedIds : id > last_trimmed)
    /\ [](\A i, j \in 1..Len(control_queue) :
             i < j => control_queue[i].id < control_queue[j].id)
    /\ [][(pc = "trim" /\ pc' = "get" /\ trim_dropped) =>
             Len(control_queue') = MaxBacklog]_vars

\* the trim has discarded a package and left MaxBacklog of them
C5_Witness ==
    /\ last_trimmed > 0
    /\ pc = "get"
    /\ Len(control_queue) = MaxBacklog

\* C6: every loop packet handled is put into the cache and folded into the
\* loop stats and the wind lists, whether or not gauge-data is generated for
\* it.
C6_PacketAlwaysFolded ==
    [][LoopStep =>
          LET packet == Head(control_queue).payload
          IN /\ packet_cache' =
                    CachedPacketUpdate(packet_cache, packet, packet.dateTime)
             /\ buffer' = setLowsAndHighs(buffer, packet)]_vars

\* a second loop packet was skipped by the throttle and is in the cache, the
\* wind sum and the wind list all the same
C6_Witness ==
    /\ outcome = "skipped"
    /\ last_handled.type = "loop"
    /\ buffer.windcount = 2
    /\ Len(buffer.wind_list) = 2
    /\ packet_cache.cache["outTemp"].ts > StartTime

C7_WitnessSecondWrite ==
    /\ min_interval # None
    /\ prev_write # None
    /\ outcome = "generated"

\* C8: in every gauge-data generated, today's high is at least, and today's
\* low at most, every outTemp of the loop packets handled so far today.
C8_DayExtremesCoverHandledPackets ==
    outcome = "generated" =>
        /\ seen.hi # None => data.tempTH >= seen.hi
        /\ seen.lo # None => data.tempTL <= seen.lo

\* C9: the loop stats are never reset for a period boundary whose day stats
\* refresh has not been applied: resets never outnumber refreshes.
C9_RefreshBeforeReset == resets <= refreshes

\* C10: reset_loop_stats clears the loop lows, highs and maxima, the wind
\* sum, the wind count and the rain sum, and leaves the wind lists, the
\* cache, day_stats and the rose as they were.
C10_ResetFrame ==
    [][ResetStep =>
          /\ buffer'.windsum = 0 /\ buffer'.windcount = 0
          /\ buffer'.rainsum = 0
          /\ buffer'.tempL_loop = NoStat /\ buffer'.tempH_loop = NoStat
          /\ buffer'.wgustM_loop = NoGust /\ buffer'.windM_loop = NoAvg
          /\ buffer'.wind_list = buffer.wind_list
          /\ buffer'.wind_dir_list = buffer.wind_dir_list
          /\ packet_cache' = packet_cache
          /\ day_stats' = day_stats
          /\ rose' = rose]_vars

\* the loop stats have just been reset with the wind lists, the cache, the
\* day stats and the rose all holding data
C10_Witness ==
    /\ last_handled.type = "event"
    /\ buffer.tempH_loop = NoStat /\ buffer.windcount = 0
    /\ buffer.wind_list # <<>> /\ buffer.wind_dir_list # <<>>
    /\ packet_cache.cache["outTemp"].value # None
    /\ day_stats.outTemp.max # None
    /\ rose[5] > 0

\* the values and the first time of a value among since_reset
ValuesSinceReset == {p[1] : p \in since_reset}
FirstTimeOf(v) ==
    LET times == {p[2] : p \in {q \in since_reset : q[1] = v}}
    IN CHOOSE t \in times : \A u \in times : t <= u

\* C11: after every loop packet the loop low of outTemp is the least and the
\* loop high the greatest value handled since the last reset (so low <= every
\* value <= high), each with the time of the first packet that had that
\* value: a later packet with an equal value does not move the time.
C11_LoopExtremes ==
    IF since_reset = {}
    THEN buffer.tempL_loop = NoStat /\ buffer.tempH_loop = NoStat
    ELSE LET lo == CHOOSE v \in ValuesSinceReset :
                       \A w \in ValuesSinceReset : v <= w
             hi == CHOOSE v \in ValuesSinceReset :
                       \A w \in ValuesSinceReset : v >= w
         IN /\ buffer.tempL_loop = <<lo, FirstTimeOf(lo)>>
            /\ buffer.tempH_loop = <<hi, FirstTimeOf(hi)>>
            /\ \A v \in ValuesSinceReset :
                  buffer.tempL_loop[1] <= v /\ v <= buffer.tempH_loop[1]

\* since a reset the high value has been handled twice, at two times
C11_Witness ==
    /\ resets > 0
    /\ \E p, q \in since_reset :
          p[1] = q[1] /\ p[2] < q[2] /\ buffer.tempH_loop = p

\* C12: the loop rain sum is the sum of the rain values, None left out, of
\* the loop packets handled since the last reset; a packet whose rain is
\* None or absent leaves it alone.
C12_RainSum == buffer.rainsum = rain_true

\* the entries of a wind list that are no older than wind_period at time t
\* (tsIndex is where an entry keeps its time)
NotOlderThanPeriod(l, tsIndex, t) ==
    SelectSeq(l, LAMBDA e : e[tsIndex] >= t - wind_period)
IsPrefix(a, b) == Len(a) <= Len(b) /\ SubSeq(b, 1, Len(a)) = a

\* C13: adding a wind sample of time t keeps exactly the entries whose time
\* is t - wind_period or later: an entry exactly wind_period old stays in
\* both wind lists.
C13_WindowKeepsBoundary ==
    [][LoopStep =>
          LET t == Head(control_queue).payload.dateTime
              kept == NotOlderThanPeriod(buffer.wind_list, 2, t)
              kept_dir == NotOlderThanPeriod(buffer.wind_dir_list, 5, t)
          IN /\ IsPrefix(kept, buffer'.wind_list)
             /\ Len(buffer'.wind_list) = Len(kept) + 1
             /\ IsPrefix(kept_dir, buffer'.wind_dir_list)
             /\ Len(buffer'.wind_dir_list) <= Len(kept_dir) + 1
             /\ \A i \in 1..Len(buffer'.wind_list) :
                   buffer'.wind_list[i][2] >= t - wind_period
             /\ \A i \in 1..Len(buffer'.wind_dir_list) :
                   buffer'.wind_dir_list[i][5] >= t - wind_period]_vars

\* the sum and the set of the speeds in the first n entries of a wind list
RECURSIVE SpeedsTotal(_, _)
SpeedsTotal(l, n) == IF n = 0 THEN 0 ELSE l[n][1] + SpeedsTotal(l, n - 1)
SpeedsOf(l) == {l[i][1] : i \in 1..Len(l)}

\* C14: a loop packet more than wind_period later than every entry of the
\* wind lists leaves none of those entries in either list; the average over
\* an empty wind list is 0, not None, and the gust over it None; otherwise
\* they are the mean and the largest of the speeds in the list.
C14_WindowEvictsAndAggregates ==
    /\ [][LoopStep =>
             LET t == Head(control_queue).payload.dateTime
                 all_older(l, k) ==
                     \A i \in 1..Len(l) : l[i][k] < t - wind_period
             IN /\ all_older(buffer.wind_list, 2) =>
                       /\ Len(buffer'.wind_list) = 1
                       /\ buffer'.wind_list[1][2] = t
                /\ all_older(buffer.wind_dir_list, 5) =>
                       /\ Len(buffer'.wind_dir_list) <= 1
                       /\ \A i \in 1..Len(buffer'.wind_dir_list) :
                             buffer'.wind_dir_list[i][5] = t]_vars
    /\ [](LET l == buffer.wind_list
              avg == averageWind(l)
              gust == tenMinuteWindGust(l)
          IN IF l = <<>>
             THEN avg[1] = 0 /\ avg[2] # 0 /\ gust = None
             ELSE /\ avg[1] * Len(l) = avg[2] * SpeedsTotal(l, Len(l))
                  /\ gust \in SpeedsOf(l)
                  /\ \A v \in SpeedsOf(l) : v <= gust)

\* a second loop packet came more than wind_period after the first and is
\* alone in both wind lists
C14_Witness ==
    /\ buffer.windcount = 2
    /\ Len(buffer.wind_list) = 1
    /\ Len(buffer.wind_dir_list) = 1
    /\ \E p \in since_reset : p[2] < buffer.wind_list[1][2] - wind_period

\* the loop step started a generation
GenerationStep == LoopStep /\ outcome' \in {"generated", "failed"}

\* C15: the cached packet built at time ts holds, for every field of OBS,
\* the cached value if the field was last updated at ts - max_cache_age or
\* later, and None if it was updated earlier than that or never seen.
C15_CacheExpiry ==
    [][GenerationStep =>
          LET ts == Head(control_queue).payload.dateTime
          IN \A obs \in OBS :
                gen'.packet[obs] =
                   IF packet_cache'.cache[obs].ts >= ts - max_cache_age
                   THEN packet_cache'.cache[obs].value
                   ELSE None]_vars

\* a cached packet returned a value that was exactly max_cache_age old
C15_Witness ==
    /\ gen.started
    /\ last_handled.type = "loop" /\ outcome = "generated"
    /\ \E obs \in OBS :
          /\ packet_cache.cache[obs].ts = gen.packet.dateTime - max_cache_age
          /\ packet_cache.cache[obs].value # None
          /\ gen.packet[obs] = packet_cache.cache[obs].value

\* a cached packet returned None for a value older than max_cache_age
C15_WitnessExpired ==
    /\ gen.started
    /\ last_handled.type = "loop" /\ outcome = "generated"
    /\ \E obs \in OBS :
          /\ packet_cache.cache[obs].ts < gen.packet.dateTime - max_cache_age
          /\ packet_cache.cache[obs].value # None
          /\ gen.packet[obs] = None

\* C16: update(packet, ts) gives every field that the packet has with a
\* value other than None that value and the time ts, and leaves the value
\* and the time of every other field as they were, a field that the packet
\* has with the value None included.
C16_UpdateFrame ==
    [][LoopStep =>
          LET packet == Head(control_queue).payload
              written == {f \in DOMAIN packet \ {"dateTime", "usUnits"} :
                             packet[f] # None}
          IN /\ DOMAIN packet_cache'.cache =
                    DOMAIN packet_cache.cache \cup written
             /\ \A f \in written :
                   packet_cache'.cache[f] =
                      [value |-> packet[f], ts |-> packet.dateTime]
             /\ \A f \in DOMAIN packet_cache.cache \ written :
                   packet_cache'.cache[f] = packet_cache.cache[f]]_vars

\* the partial packet, whose rain is None, was handled after a full one: its
\* outTemp is cached, rain and the wind fields still hold the full packet's
\* value and time
C16_Witness ==
    /\ last_handled.type = "loop"
    /\ packet_cache.cache["outTemp"].value = 1
    /\ packet_cache.cache["rain"].value = 1
    /\ packet_cache.cache["windSpeed"].value = 300
    /\ packet_cache.cache["rain"].ts < packet_cache.cache["outTemp"].ts
    /\ packet_cache.cache["windSpeed"].ts < packet_cache.cache["outTemp"].ts

\* C17: every packet that get_packet returns has every field of
\* CachedPacket.OBS, with a value or None, and dateTime and usUnits; a field
\* of OBS is never missing, whatever partial packets came before.
C17_SnapshotComplete ==
    gen.started =>
        /\ OBS \cup {"dateTime", "usUnits"} \subseteq DOMAIN gen.packet
        /\ \A obs \in OBS : obs \in DOMAIN packet_cache.cache

\* a snapshot taken when only the partial packet has arrived: the fields no
\* packet has had are in it as None
C17_Witness ==
    /\ gen.started
    /\ gen.packet["outTemp"] = 1
    /\ gen.packet["windSpeed"] = None
    /\ gen.packet["windDir"] = None
    /\ gen.packet["rain"] = None
    /\ packet_cache.cache["windSpeed"].ts = StartTime

\* the rows of the query of the latest calc_windrose call: the archive as it
\* was at the call, the window as the call computed it
LastRoseRows ==
    WindroseRows(SubSeq(archive_table, 1, rose_call.rows),
                 rose_call.now - windrose_period, wr_points)

RECURSIVE RowsTotal(_)
RowsTotal(rows) ==
    IF rows = {} THEN 0
    ELSE LET r == CHOOSE x \in rows : TRUE
         IN r[2] + RowsTotal(rows \ {r})

\* C18: the windrose has exactly `points` entries; every row (sector i, sum
\* s) of the store adds s to entry i when i < points and to entry 0 when
\* i = points, rows add up in an entry, and an entry no row was added to is
\* 0.0 (the entries are rounded to one decimal).
C18_WindroseBuckets ==
    /\ Len(rose) = wr_points
    /\ \A k \in 0..(wr_points - 1) :
          rose[k + 1] =
             Round1(RowsTotal({r \in LastRoseRows :
                                  /\ r[1] # None /\ r[2] # None
                                  /\ \/ r[1] = k
                                     \/ r[1] = wr_points /\ k = 0}))

\* a windrose over a record from 350 degrees (sector `points`) and one from
\* 10 degrees (sector 0): both are in entry 0, the other entries are 0.0
C18_Witness ==
    /\ \E r \in LastRoseRows : r[1] = wr_points /\ r[2] = 527
    /\ \E r \in LastRoseRows : r[1] = 0 /\ r[2] = 104
    /\ rose[1] = 630
    /\ \A k \in 2..wr_points : rose[k] = 0

\* the windrose of the records idx of the archive: per entry, the rounded
\* sum of the speeds of the records whose direction falls in its sector
RoseOfRecords(idx) ==
    [k \in 1..wr_points |->
        Round1(SpeedSum(archive_table,
                        {i \in idx :
                            /\ archive_table[i].windDir # None
                            /\ LET sector == Sector(archive_table[i].windDir,
                                                    wr_points)
                               IN \/ sector = k - 1
                                  \/ sector = wr_points /\ k = 1}))]

C19_WitnessLater ==
    /\ \E i \in 1..rose_call.rows :
          /\ archive_table[i].dateTime > rose_call.now
          /\ archive_table[i].windDir = 350
    /\ rose[1] = 530

\* C20: calc_trend returns None when the current value is None, when the
\* store has no record within grace of the look-back time or when the record
\* found lacks the observation, and current - historical in every other
\* case; it never raises.
C20_TrendNoneOrDifference ==
    gen.started =>
        \/ /\ gen.temptrend.kind = "None"
           /\ \/ gen.packet["outTemp"] = None
              \/ \A i \in 1..Len(archive_table) :
                    \/ Abs(archive_table[i].dateTime
                             - (gen.packet["dateTime"] - TrendPeriod))
                          > TrendGrace
                    \/ Get(archive_table[i], "outTemp", None) = None
        \/ /\ gen.temptrend.kind = "value"
           /\ \E i \in 1..Len(archive_table) :
                 /\ Abs(archive_table[i].dateTime
                          - (gen.packet["dateTime"] - TrendPeriod))
                       <= TrendGrace
                 /\ "outTemp" \in DOMAIN archive_table[i]
                 /\ gen.temptrend.value =
                        gen.packet["outTemp"] - archive_table[i]["outTemp"]

\* a trend that is a difference: the record of an hour ago has outTemp 1, the
\* packet outTemp 2
C20_TrendCasesHappen ==
    /\ gen.started
    /\ gen.temptrend.kind = "value"
    /\ gen.temptrend.value = 1

\* the loop step wrote gauge-data
SnapshotStep == LoopStep /\ outcome' = "generated"

\* the highest and the lowest of a set of values, None for the empty set
Highest(values) ==
    IF values = {} THEN None
    ELSE CHOOSE v \in values : \A w \in values : v >= w
Lowest(values) ==
    IF values = {} THEN None
    ELSE CHOOSE v \in values : \A w \in values : v <= w

\* the extreme of the baseline and the accumulator, a None side ignored
MergedHigh(loop, base) ==
    IF loop = None THEN base
    ELSE IF base = None THEN loop
    ELSE IF loop > base THEN loop ELSE base
MergedLow(loop, base) ==
    IF loop = None THEN base
    ELSE IF base = None THEN loop
    ELSE IF loop < base THEN loop ELSE base

C21_WitnessNoSample ==
    /\ outcome = "generated"
    /\ day_stats.outTemp = EarlierToday(3)
    /\ since_reset = {}
    /\ data.tempTH = 3
    /\ data.tempTL = 3

\* the time of the first of the pairs <<value, time>> that has the value v
FirstTimeAmong(pairs, v) ==
    LET times == {p[2] : p \in {q \in pairs : q[1] = v}}
    IN CHOOSE t \in times : \A u \in times : t <= u

\* C22: when the greatest value handled since the last reset is above the
\* day summary's maximum, the time written with the day high is the time of
\* the packet that brought that value; likewise for a least value below the
\* day summary's minimum and the time written with the day low.
C22_LoopExtremeTime ==
    [][SnapshotStep =>
          LET values == {p[1] : p \in since_reset'}
              high == Highest(values)
              low == Lowest(values)
          IN /\ (high # None /\ day_stats.outTemp.max # None /\ high > day_stats.outTemp.max)
                  => data'.TtempTH = FirstTimeAmong(since_reset', high)
             /\ (low # None /\ day_stats.outTemp.min # None /\ low < day_stats.outTemp.min)
                  => data'.TtempTL = FirstTimeAmong(since_reset', low)]_vars

\* C22 for the day low alone
C22_LoopLowTime ==
    [][SnapshotStep =>
          LET low == Lowest({p[1] : p \in since_reset'})
          IN (low # None /\ day_stats.outTemp.min # None /\ low < day_stats.outTemp.min)
                => data'.TtempTL = FirstTimeAmong(since_reset', low)]_vars

\* C23: when the day summary's extreme equals or beats the accumulator's, or
\* no packet since the last reset had a value, the time written with the day
\* high or low is the day summary's time of that extreme.
C23_BaselineExtremeTime ==
    [][SnapshotStep =>
          LET values == {p[1] : p \in since_reset'}
              high == Highest(values)
              low == Lowest(values)
          IN /\ (day_stats.outTemp.max # None /\ (high = None \/ day_stats.outTemp.max >= high))
                  => data'.TtempTH = day_stats.outTemp.maxtime
             /\ (day_stats.outTemp.min # None /\ (low = None \/ day_stats.outTemp.min <= low))
                  => data'.TtempTL = day_stats.outTemp.mintime]_vars

\* C23 for the day high alone, which the code does satisfy
C23_BaselineHighTime ==
    [][SnapshotStep =>
          LET high == Highest({p[1] : p \in since_reset'})
          IN (day_stats.outTemp.max # None /\ (high = None \/ day_stats.outTemp.max >= high))
                => data'.TtempTH = day_stats.outTemp.maxtime]_vars

\* C23 for the day low when the accumulator has a value, which the code does
\* satisfy as well
C23_BaselineLowTimeWithSample ==
    [][SnapshotStep =>
          LET low == Lowest({p[1] : p \in since_reset'})
          IN (day_stats.outTemp.min # None /\ low # None /\ day_stats.outTemp.min <= low)
                => data'.TtempTL = day_stats.outTemp.mintime]_vars

C24_WitnessStopped ==
    /\ outcome = "raised"
    /\ pc = "stopped"
    /\ last_handled.type = "loop"
    /\ \E i \in 1..Len(control_queue) : control_queue[i].type = "archive"

ArchiveStep == HandledStep /\ last_handled'.type = "archive"

\* C25: a failure of the archive store in the windrose query or in the
\* refresh of the day stats that an archive record triggers stays in that
\* step: the thread does not end, and the windrose and the day stats keep
\* their value or take an empty one.
C25_StoreFailureContained ==
    [][ArchiveStep => pc' = "get"]_vars

\* the store failed while an archive record was handled and the thread has
\* ended, a package still in its queue
C25_ThreadEndedByStore ==
    /\ last_handled.type = "archive"
    /\ pc = "stopped"
    /\ control_queue # <<>>

ShutDownStep == engineUp /\ ~engineUp'

\* C26: shutDown puts a None on the control queue of every live thread the
\* service started, the worker and the source thread, before it waits for
\* any of them.
C26_SentinelToEveryThread ==
    [][ShutDownStep =>
          /\ pc # "stopped" => SentinelQueued'
          /\ source_pc = "run" =>
                \E i \in 1..Len(source_ctl_queue') :
                   source_ctl_queue'[i] = "None"]_vars

\* C26 for the worker alone, which the code does satisfy
C26_SentinelToWorker ==
    [][ShutDownStep => (pc # "stopped" => SentinelQueued')]_vars

\* shutDown has run and the source thread is alive with nothing in its
\* control queue
C26_SourceNeverTold ==
    /\ ~engineUp
    /\ source_pc = "run"
    /\ source_ctl_queue = <<>>

\* an entry of the buffer that held a value is back at its initial value, or
\* a sum or count that was not 0 is 0
LoopStatsCleared ==
    \/ \E f \in {"tempL_loop", "tempH_loop", "wgustM_loop", "windM_loop"} :
          buffer[f] # EmptyBuffer[f] /\ buffer'[f] = EmptyBuffer[f]
    \/ \E f \in {"windsum", "windcount", "rainsum"} :
          buffer[f] # 0 /\ buffer'[f] = 0

\* C27: the loop accumulators are reset only when an END_ARCHIVE_PERIOD
\* event is handled: no loop low, high or maximum is cleared and no wind
\* sum, wind count or rain sum is zeroed when a loop packet, an archive
\* record, a stats package or a queue timeout is handled.
C27_ResetOnlyAtPeriodEnd ==
    [][LoopStatsCleared =>
          /\ HandledStep
          /\ last_handled'.type = "event"
          /\ Head(control_queue).payload.event = "END_ARCHIVE_PERIOD"]_vars

\* an END_ARCHIVE_PERIOD event has just cleared accumulators that held the
\* extremes and sums of a loop packet
C27_Witness ==
    /\ last_handled.type = "event"
    /\ resets > 0
    /\ seen.hi # None
    /\ buffer.tempH_loop = NoStat
    /\ buffer.windsum = 0 /\ buffer.windcount = 0
    /\ buffer.wind_list # <<>>

\* C28: a loop packet whose windSpeed is None or absent leaves the wind
\* statistics alone: the wind sum, the wind count, the loop gust and average
\* maxima and the wind speed list are as they were.
C28_NoWindSpeedNoChange ==
    [][(LoopStep /\ Get(Head(control_queue).payload, "windSpeed", None) = None)
          => /\ buffer'.windsum = buffer.windsum
             /\ buffer'.windcount = buffer.windcount
             /\ buffer'.wgustM_loop = buffer.wgustM_loop
             /\ buffer'.windM_loop = buffer.windM_loop
             /\ buffer'.wind_list = buffer.wind_list]_vars

\* C28 for the wind sum and the loop gust alone, which a speed of 0.0 leaves
\* as they were
C28_NoWindSpeedKeepsSumAndGust ==
    [][(LoopStep /\ Get(Head(control_queue).payload, "windSpeed", None) = None)
          => /\ buffer'.windsum = buffer.windsum
             /\ buffer'.wgustM_loop = buffer.wgustM_loop]_vars

\* a packet without windSpeed has been counted and listed as a speed of 0.0
\* after a packet with a speed of 300
C28_CountedAsCalm ==
    /\ buffer.windcount = 2
    /\ buffer.windsum = 300
    /\ Len(buffer.wind_list) = 2
    /\ buffer.wind_list[2][1] = 0

\* C29: a loop packet with a wind speed and no bearing is added to the wind
\* sum, the wind count and the wind speed list, and adds no entry to the
\* direction list; and the loop gust record always holds the speed, bearing
\* and time of one and the same packet.
C29_NullBearingAndGustRecord ==
    /\ [][LoopStep =>
             LET packet == Head(control_queue).payload
                 speed == Get(packet, "windSpeed", None)
             IN (speed # None /\ Get(packet, "windDir", None) = None) =>
                   /\ buffer'.windsum = buffer.windsum + speed
                   /\ buffer'.windcount = buffer.windcount + 1
                   /\ buffer'.wind_list[Len(buffer'.wind_list)] =
                          <<speed, packet.dateTime>>
                   /\ Len(buffer'.wind_dir_list) <= Len(buffer.wind_dir_list)
                   /\ \A i \in 1..Len(buffer'.wind_dir_list) :
                         \E j \in 1..Len(buffer.wind_dir_list) :
                            buffer'.wind_dir_list[i] = buffer.wind_dir_list[j]]_vars
    /\ [][buffer'.wgustM_loop # buffer.wgustM_loop =>
             \/ ResetStep /\ buffer'.wgustM_loop = NoGust
             \/ /\ LoopStep
                /\ LET packet == Head(control_queue).payload
                   IN /\ {"windSpeed", "windDir"} \subseteq DOMAIN packet
                      /\ packet.windDir # None
                      /\ buffer'.wgustM_loop =
                            <<packet.windSpeed, packet.windDir,
                              packet.dateTime>>]_vars

\* a packet with speed 400 and no bearing has been handled after one with
\* speed 300 from 90 degrees: it is in the sum, the count and the speed list,
\* not in the direction list, and the gust record is still the first packet's
C29_Witness ==
    /\ buffer.windsum = 700
    /\ buffer.windcount = 2
    /\ Len(buffer.wind_list) = 2
    /\ buffer.wind_list[2][1] = 400
    /\ Len(buffer.wind_dir_list) = 1
    /\ buffer.wgustM_loop[1] = 300
    /\ buffer.wgustM_loop[2] = 90
    /\ buffer.wgustM_loop[3] = buffer.wind_list[1][2]

\* the rows of the latest query without those whose sector or sum is None
LastRoseRowsWithoutNone ==
    {r \in LastRoseRows : r[1] # None /\ r[2] # None}

\* C30: the rows of the store whose sector or whose speed sum is None add
\* nothing to the windrose: it is the windrose of the other rows alone.
C30_NullRowsAddNothing ==
    \A k \in 0..(wr_points - 1) :
       rose[k + 1] =
          Round1(RowsTotal({r \in LastRoseRowsWithoutNone :
                               RoseIndex(r, wr_points) = k}))

\* a windrose over a record without direction whose speed is 215 and a
\* record from 90 degrees: only the second is in it
C30_Witness ==
    /\ \E r \in LastRoseRows : r[1] = None /\ r[2] = 215
    /\ \E r \in LastRoseRows : r[1] = 4 /\ r[2] = 312
    /\ rose[5] = 310
    /\ \A k \in (1..wr_points) \ {5} : rose[k] = 0

\* a windrose over a record from 180 degrees whose speed is None and a
\* record from 90 degrees: only the second is in it
C30_WitnessNullSum ==
    /\ \E r \in LastRoseRows : r[1] = 8 /\ r[2] = None
    /\ \E r \in LastRoseRows : r[1] = 4 /\ r[2] = 312
    /\ rose[5] = 310
    /\ \A k \in (1..wr_points) \ {5} : rose[k] = 0

StatsStep == HandledStep /\ last_handled'.type = "stats"

\* C31: handling a stats package gives every attribute named in its payload
\* the payload's value and leaves every other stats attribute, the buffer
\* with its wind lists, the packet cache, the day stats, the windrose and
\* last_write as they were; a payload that is None changes nothing.
C31_StatsFrame ==
    /\ [][StatsStep =>
             LET payload == Head(control_queue).payload
             IN /\ DOMAIN stats' = DOMAIN stats \cup DOMAIN payload
                /\ \A k \in DOMAIN payload : stats'[k] = payload[k]
                /\ \A k \in DOMAIN stats \ DOMAIN payload :
                      stats'[k] = stats[k]
                /\ UNCHANGED <<buffer, packet_cache, day_stats, rose,
                               last_write>>]_vars
    /\ [](process_stats(stats, NonePayload) = stats)

\* the month's rain has been set by a stats package after the barometer
\* extremes were set by another, with the buffer, the cache and the day
\* stats holding data
C31_Witness ==
    /\ last_handled.type = "stats"
    /\ stats.month_rain = 12
    /\ stats.max_barometer = 1030 /\ stats.min_barometer = 990
    /\ buffer.windcount > 0
    /\ day_stats.outTemp.max # None

\* a step of the thread: nothing of the engine, the clock or the source moves
ThreadStep == UNCHANGED envVars

\* the scroller text follows the forecast packages taken from the result
\* queue: an iteration that finds a package takes it, a forecast package
\* sets the text to its payload, and nothing else changes the text
TextFollowsResultQueue ==
    /\ [][(ThreadStep /\ pc = "get" /\ result_queue # <<>>) =>
             /\ result_queue' = Tail(result_queue)
             /\ Head(result_queue).type = "forecast" =>
                    scroller_text' = Head(result_queue).payload
             /\ Head(result_queue).type # "forecast" =>
                    scroller_text' = scroller_text]_vars
    /\ [][scroller_text' # scroller_text =>
             /\ ThreadStep /\ pc = "get"
             /\ result_queue # <<>>
             /\ Head(result_queue).type = "forecast"]_vars

\* the poll of the result queue does not hold the thread up: with a package
\* in the control queue, an iteration handles it whether or not the result
\* queue held anything
PollNeverBlocks ==
    [][(ThreadStep /\ pc = "get" /\ control_queue # <<>>) =>
          /\ HandledStep
          /\ last_handled'.id = Head(control_queue).id]_vars

\* C32 as stated: the forecast written is the payload of the forecast
\* package taken last, word for word (the empty text if none was taken).
C32_ForecastIsPayload ==
    [][SnapshotStep =>
          data'.forecast =
             IF scroller_text' = NoText THEN <<>> ELSE scroller_text']_vars

\* C32: the forecast written is the payload of the forecast package taken
\* last with its strftime directives replaced by the time of the packet
\* (the empty text if none was taken); only a forecast package changes the
\* text kept, and the poll of the result queue never holds up the handling
\* of the control queue.
C32_ForecastIsExpandedPayload ==
    /\ [][SnapshotStep =>
             LET text == IF scroller_text' = NoText THEN <<>>
                         ELSE scroller_text'
                 hour == (data'.dateTime \div 3600) % 24
             IN /\ Len(data'.forecast) = Len(text)
                /\ \A i \in 1..Len(text) :
                      data'.forecast[i] =
                         IF text[i] = "%H" THEN ToString(hour) ELSE text[i]]_vars
    /\ TextFollowsResultQueue
    /\ PollNeverBlocks

\* a snapshot whose forecast is a text with a directive, the hour in its
\* place
C32_Witness ==
    /\ outcome = "generated"
    /\ scroller_text = DatedText
    /\ data.forecast = << "issued at ", "1" >>

\* a snapshot written with an empty result queue and no text so far: the
\* forecast is empty
C32_WitnessNoText ==
    /\ outcome = "generated"
    /\ scroller_text = NoText
    /\ result_queue = <<>>
    /\ data.forecast = <<>>

\* the archive record handled last said that contact is lost
LastArchiveLostContact ==
    /\ refreshes > 0
    /\ \E i \in 1..Len(archive_table) :
          /\ archive_table[i].dateTime = rose_call.now
          /\ Get(archive_table[i], "rxCheckPercent", None) = 0

\* C33: on a Vantage, after an archive record that says contact is lost has
\* been handled, every snapshot written before the next archive record is
\* handled has SensorContactLost = 1 (ignore_lost_contact not set); the loop
\* packets in between do not clear the flag.
C33_LostContactHeld ==
    [][(SnapshotStep /\ station_type \in ARCHIVE_STATIONS
          /\ ~ignore_lcontact /\ LastArchiveLostContact)
          => data'.SensorContactLost = 1]_vars

\* on a Vantage an archive record has set the flag and no loop packet has
\* been handled since
C33_FlagSet ==
    /\ station_type = "Vantage"
    /\ last_handled.type \in {"archive", "stats"}
    /\ LastArchiveLostContact
    /\ lost_contact_flag

\* what the code does instead: on a Vantage no snapshot ever has
\* SensorContactLost = 1, the flag being cleared before every calculate
C33_VantageNeverReportsLoss ==
    [][(SnapshotStep /\ station_type \in ARCHIVE_STATIONS)
          => data'.SensorContactLost = 0 /\ ~lost_contact_flag']_vars

\* C34: when neither the day stats nor the buffer has a value for a day
\* high or a day low, the snapshot gives the current value of the
\* observation for it: for outTemp and for outHumidity, high and low.
C34_DefaultsToCurrent ==
    [][SnapshotStep =>
          /\ (buffer'.tempL_loop[1] = None /\ day_stats.outTemp.min = None)
                => data'.tempTL = data'.temp
          /\ (buffer'.tempH_loop[1] = None /\ day_stats.outTemp.max = None)
                => data'.tempTH = data'.temp
          /\ (buffer'.humL_loop[1] = None /\ day_stats.outHumidity.min = None)
                => data'.humTL = data'.hum
          /\ (buffer'.humH_loop[1] = None /\ day_stats.outHumidity.max = None)
                => data'.humTH = data'.hum]_vars

\* C34 without the high of outHumidity, which the code does satisfy
C34_DefaultsButHumidityHigh ==
    [][SnapshotStep =>
          /\ (buffer'.tempL_loop[1] = None /\ day_stats.outTemp.min = None)
                => data'.tempTL = data'.temp
          /\ (buffer'.tempH_loop[1] = None /\ day_stats.outTemp.max = None)
                => data'.tempTH = data'.temp
          /\ (buffer'.humL_loop[1] = None /\ day_stats.outHumidity.min = None)
                => data'.humTL = data'.hum]_vars

\* a snapshot with the humidity of the cache as current value, the day's low
\* equal to it and the day's high 0: neither the day stats nor the buffer
\* had a value
C34_HumidityHighZero ==
    /\ outcome = "generated"
    /\ buffer.humH_loop = NoStat /\ day_stats.outHumidity.max = None
    /\ data.hum = 52 /\ data.humTL = 52
    /\ data.humTH = 0
    /\ data.temp = 2 /\ data.tempTH = 2 /\ data.tempTL = 2

\* C35: when a snapshot is computed the wind count of the buffer is at least
\* 1 and the wind speed list is not empty, the packet that triggered it
\* being counted and listed already, even directly after a reset; so the
\* division by the wind count in windrun never divides by zero.
C35_WindCountPositive ==
    /\ [][GenerationStep =>
             LET packet == Head(control_queue).payload
                 l == buffer'.wind_list
             IN /\ buffer'.windcount >= 1
                /\ Len(l) >= 1
                /\ l[Len(l)][2] = packet.dateTime]_vars
    /\ [][SnapshotStep =>
             /\ data'.windrun_loop[2] # 0
             /\ data'.windrun_loop = <<buffer'.windsum, buffer'.windcount>>]_vars

\* a snapshot for a packet without wind speed, the first packet after a
\* reset: the count is 1 and the sum 0
C35_Witness ==
    /\ outcome = "generated"
    /\ last_handled.type = "loop"
    /\ resets > 0
    /\ data.windrun_loop = <<0, 1>>
    /\ buffer.windcount = 1
    /\ Len(buffer.wind_list) = 2

\* C36: in every snapshot written the day low is at most, and the day high
\* at least, the current value, for outTemp and for outHumidity, also when
\* the current value is the cache's because the packet had none, and
\* directly after a reset.
C36_CurrentWithinDayRange ==
    data # NoData =>
        /\ data.tempTL <= data.temp /\ data.temp <= data.tempTH
        /\ data.humTL <= data.hum /\ data.hum <= data.humTH

\* a snapshot directly after a reset for a packet without outTemp: the
\* current value is the 2 of the cache, the day high the 1 of the day stats
C36_CurrentAboveDayHigh ==
    /\ outcome = "generated"
    /\ resets > 0 /\ since_reset = {}
    /\ gen.packet["outTemp"] = 2
    /\ data.temp = 2
    /\ data.tempTH = 1

\* a snapshot when no packet has had outTemp: the current value is the
\* default 0, the day low and high the 1 of the day stats
C36_DefaultBelowDayLow ==
    /\ outcome = "generated"
    /\ gen.packet["outTemp"] = None
    /\ data.temp = 0
    /\ data.tempTL = 1 /\ data.tempTH = 1

\* the wind speed setLowsAndHighs takes from a packet
SpeedOf(packet) ==
    LET speed == Get(packet, "windSpeed", 0)
    IN IF speed = None THEN 0 ELSE speed

\* C37 as stated: the loop gust maximum is at least the wind speed of every
\* packet handled since the last reset, whatever its bearing: so it is at
\* least the speed of the packet just handled.
C37_GustCoversEverySample ==
    [][(LoopStep /\ outcome' # "raised") =>
          buffer'.wgustM_loop[1] >= SpeedOf(Head(control_queue).payload)]_vars

\* C37: the loop gust maximum is at least the wind speed of every packet
\* with a bearing handled since the last reset: handling such a packet
\* leaves it at or above the packet's speed, no packet lowers it, and only
\* a reset clears it.  A packet without a bearing does not raise it.
C37_GustCoversSamplesWithBearing ==
    /\ [][(LoopStep /\ outcome' # "raised") =>
             LET packet == Head(control_queue).payload
             IN /\ Get(packet, "windDir", None) # None =>
                      buffer'.wgustM_loop[1] >= SpeedOf(packet)
                /\ Get(packet, "windDir", None) = None =>
                      buffer'.wgustM_loop = buffer.wgustM_loop
                /\ buffer'.wgustM_loop[1] >= buffer.wgustM_loop[1]]_vars
    /\ [][buffer'.wgustM_loop[1] < buffer.wgustM_loop[1] =>
             ResetStep /\ buffer'.wgustM_loop = NoGust]_vars

\* since a reset a packet with speed 300 from 90 degrees and one with speed
\* 400 and no bearing have been handled: the loop gust maximum is 300
C37_Witness ==
    /\ resets > 0
    /\ buffer.windcount = 2 /\ buffer.windsum = 700
    /\ buffer.wgustM_loop[1] = 300
    /\ \E i \in 1..Len(buffer.wind_list) : buffer.wind_list[i][1] = 400

\* a bearing as the snapshot shows it: 0 for a bearing that is None
BearingOr0(dir) == IF dir # None THEN dir ELSE 0

\* C38: in every snapshot written the bearing and the time of today's high
\* gust come from where its value comes from: from the loop gust record
\* when that is above the day stats' maximum, from the day stats when their
\* maximum is above the loop gust record or there is none, and from either
\* of the two, but both from the same, when the two are equal.
C38_GustBearingAndTimeFromOneSource ==
    [][SnapshotStep =>
          LET loop == buffer'.wgustM_loop
              base == day_stats.wind
              from_loop == /\ data'.bearingTM = loop[2]
                           /\ data'.TwgustTM = loop[3]
              from_base == /\ data'.bearingTM = BearingOr0(base.max_dir)
                           /\ data'.TwgustTM = base.maxtime
          IN /\ (loop[1] # None /\ loop[1] > base.max) =>
                   data'.wgustTM = loop[1] /\ from_loop
             /\ (base.max # None /\ base.max > loop[1]) =>
                   data'.wgustTM = base.max /\ from_base
             /\ (loop[1] # None /\ loop[1] = base.max) =>
                   data'.wgustTM = loop[1] /\ (from_loop \/ from_base)]_vars

\* C38 for the value and the bearing alone, which the code does satisfy
C38_GustBearingFollowsValue ==
    [][SnapshotStep =>
          LET loop == buffer'.wgustM_loop
              base == day_stats.wind
          IN /\ (loop[1] # None /\ loop[1] >= base.max) =>
                   data'.wgustTM = loop[1] /\ data'.bearingTM = loop[2]
             /\ (base.max # None /\ base.max > loop[1]) =>
                   /\ data'.wgustTM = base.max
                   /\ data'.bearingTM = BearingOr0(base.max_dir)]_vars

\* a snapshot whose high gust and bearing are the loop gust record's, 300
\* from 90 degrees, above the 200 of the day stats, and whose time is the
\* day stats'
C38_LoopGustWithBaselineTime ==
    /\ outcome = "generated"
    /\ day_stats.wind = EarlierGust(200)
    /\ buffer.wgustM_loop[1] = 300
    /\ data.wgustTM = 300 /\ data.bearingTM = 90
    /\ data.TwgustTM = StartTime - TickSeconds
    /\ buffer.wgustM_loop[3] > data.TwgustTM

\* C39: last_write moves only when a snapshot has been computed and
\* written, and then to the current time; a generation that fails in
\* calculate or write_data leaves last_write and the output as they were
\* and keeps the update of the cache and of the buffer made for the packet;
\* so the packet after a failed generation is not skipped by the throttle.
C39_WriteTimeOnlyOnSuccess ==
    /\ [][last_write' # last_write =>
             /\ SnapshotStep
             /\ last_write' = now
             /\ data'.dateTime = Head(control_queue).payload.dateTime]_vars
    /\ [][(LoopStep /\ outcome' = "failed") =>
             LET packet == Head(control_queue).payload
             IN /\ last_write' = last_write
                /\ data' = data
                /\ packet_cache' =
                       CachedPacketUpdate(packet_cache, packet, packet.dateTime)
                /\ buffer' = setLowsAndHighs(buffer, packet)]_vars
    /\ [][(LoopStep /\ outcome = "failed") => outcome' # "skipped"]_vars

\* with min_interval set, the generation for the first packet failed and
\* the one for the second packet, handled at the same time, was written: it
\* is the first write, and both packets are in the buffer
C39_Witness ==
    /\ min_interval # None
    /\ outcome = "generated"
    /\ prev_write = None
    /\ last_write = StartTime
    /\ buffer.windcount = 2
    /\ Len(buffer.wind_list) = 2

\* with min_interval set, a generation has failed: nothing has been written
\* and the packet is in the cache and in the buffer
C39_WitnessFailed ==
    /\ min_interval # None
    /\ outcome = "failed"
    /\ last_write = 0 /\ data = NoData
    /\ buffer.windcount = 1
    /\ packet_cache.cache["outTemp"].value # None

\* a round of the backlog trim that discards the package at the head
TrimDiscards == pc = "trim" /\ last_trimmed' # last_trimmed

\* C40: the backlog trim discards loop packages only: the None package, an
\* archive record, an event and a stats package are never discarded, for
\* every queue content and every interleaving of the engine's callbacks.
C40_TrimDiscardsOnlyLoop ==
    [][TrimDiscards => Head(control_queue).type = "loop"]_vars

\* the None package is the last one enqueued, so the trim, which leaves the
\* newest MaxBacklog packages, never discards it
C40_TrimKeepsSentinel ==
    [][TrimDiscards => Head(control_queue).type # "None"]_vars

\* the trim never discards an archive record
C40_TrimKeepsArchive ==
    [][TrimDiscards => Head(control_queue).type # "archive"]_vars

\* the trim never discards an event
C40_TrimKeepsEvent ==
    [][TrimDiscards => Head(control_queue).type # "event"]_vars

\* the trim never discards a stats package
C40_TrimKeepsStats ==
    [][TrimDiscards => Head(control_queue).type # "stats"]_vars

=============================================================================
